---- MODULE Spec2Model ----
(***************************************************************************)
(* niconico-series-feed: src/index.ts.                                     *)
(*                                                                         *)
(* scrape(req, res) fetches a series page, reads the JSON payload embedded *)
(* in it, fetches the last page when the series has more than 100 videos,  *)
(* and answers with an RSS 2.0 feed of the newest 20 videos.               *)
(*                                                                         *)
(* JavaScript runs the code between two awaits without interruption, so    *)
(* one action models one such stretch of scrape/check:                     *)
(*   Invoke(r)       scrape entry up to the first awaited fetch            *)
(*   FetchSettles(r) the first fetch settles, up to the second await or    *)
(*                   to the response                                       *)
(*   ReFetchSettles(r) the second fetch settles, up to the response        *)
(*   CatchRuns(r)    check threw, so its promise is rejected; scrape's     *)
(*                   `await check(req, res)` resumes in a later microtask  *)
(*                   and runs the catch block                              *)
(* A throw inside check ends the stretch it happens in: other callbacks,   *)
(* a whole other invocation included, may run before the catch block.      *)
(* In development the module itself calls scrape(null, null) when it      *)
(* loads: that invocation is run[Self], already at its first await or at   *)
(* its throw in the initial state, beside the requests that arrive later.  *)
(* What a stretch does in order (spans started, log entries, the response) *)
(* is kept in the request's record, in the order the code does it.         *)
(***************************************************************************)
EXTENDS Integers, Sequences, FiniteSets, TLC

VARIABLES
    env,            \* process.env.SERIES_ID
    isDevelopment,  \* process.env.NODE_ENV !== "production"
    site,           \* what the upstream host may serve: site.first describes the
                    \* pages of a series URL, site.last those of a ?page=n URL
    call,           \* call[r]: the (req, res) arguments of invocation r
    rootContext,    \* the module-level `let rootContext`
    run             \* run[r]: locals and observable effects of invocation r

vars == <<env, isDevelopment, site, call, rootContext, run>>

----------------------------------------------------------------------------
(* Bounds of the model *)

MaxTotalCount == 250
MaxItems == 21

(* Constants of the program *)

PageSize == 100
FeedLimit == 20

----------------------------------------------------------------------------
(* Values *)

Undefined == "<undefined>"

Min(a, b) == IF a < b THEN a ELSE b

\* `${x}`: a template literal renders undefined as the text "undefined"
Str(x) == IF x = Undefined THEN "undefined" ELSE x

\* a ?? b
Nullish(a, b) == IF a = Undefined THEN b ELSE a

\* !x for a string or undefined
Falsy(x) == x = Undefined \/ x = ""

QuerySeriesIds == {Undefined, "", "111"}
EnvSeriesIds == {Undefined, "222"}
Traceparents == {"00-aaaa-01", "00-bbbb-01"}
CanonicalHrefs == {"https://www.nicovideo.jp/series/111"}
Titles == <<"Series A", "Series B">>
Statuses == {200, 404}

RegisteredAts ==
    <<"2023-01-01T09:00:00+09:00", "2023-01-01T00:00:00.000Z",
      "2023-01-02T00:00:00.000Z", "not a date">>

\* new Date(string): the instant (in seconds since the epoch), or an Invalid Date
NewDate(s) ==
    CASE s = "2023-01-01T09:00:00+09:00" -> [valid |-> TRUE, epoch |-> 1672531200]
      [] s = "2023-01-01T00:00:00.000Z"  -> [valid |-> TRUE, epoch |-> 1672531200]
      [] s = "2023-01-02T00:00:00.000Z"  -> [valid |-> TRUE, epoch |-> 1672617600]
      [] OTHER                           -> [valid |-> FALSE, epoch |-> 0]

\* VideoType / VideoItemType: the n-th video of a series
Video(n) ==
    [id |-> n,
     title |-> <<"title", n>>,
     thumbnail |-> [url |-> <<"thumbnail", n>>],
     shortDescription |-> <<"shortDescription", n>>,
     registeredAt |-> RegisteredAts[(n % 4) + 1]]

VideoItem(n) == [meta |-> Undefined, video |-> Video(n)]

ItemList(base, len) == [i \in 1..len |-> VideoItem(base + i)]

TotalCounts == {3, PageSize, PageSize + 1, 2 * PageSize, MaxTotalCount}
LastPageTotalCounts == {3, MaxTotalCount}
ItemCounts == {0, 3, MaxItems}

\* InitialData["nvapi"][0]["body"]["data"]
Payloads(variants, totalCounts, itemCounts) ==
    {[detail |-> [title |-> Titles[v]],
      totalCount |-> tc,
      items |-> ItemList((v - 1) * 2 * PageSize, len)] :
        v \in variants, tc \in totalCounts, len \in itemCounts}

InitialData(d) == [nvapi |-> <<[body |-> [data |-> d]]>>]

\* A page body, as the two selections the code makes in it: each is the
\* sequence of the elements the selector matches (none or one).
Bodies(variants, totalCounts, itemCounts) ==
    [canonical : {<<>>} \cup {<<h>> : h \in CanonicalHrefs},
     initialData : {<<>>} \cup
                   {<<InitialData(d)>> : d \in Payloads(variants, totalCounts, itemCounts)}]

\* the well-formed pages among them: a canonical link and a payload
WellFormedBodies(variants, totalCounts, itemCounts) ==
    {b \in Bodies(variants, totalCounts, itemCounts) :
        b.canonical # <<>> /\ b.initialData # <<>>}

\* the pages a description of the host stands for
Served(pages) ==
    IF pages.malformed
    THEN Bodies(pages.variants, pages.totalCounts, pages.itemCounts)
    ELSE WellFormedBodies(pages.variants, pages.totalCounts, pages.itemCounts)

Pages(malformed, variants, totalCounts, itemCounts) ==
    [malformed |-> malformed, variants |-> variants, totalCounts |-> totalCounts,
     itemCounts |-> itemCounts]

NoBody == [canonical |-> <<>>, initialData |-> <<>>]

NetworkError == [kind |-> "error", status |-> 0, body |-> NoBody]

\* URLs, as the pieces of the template literal that builds them
SeriesUrl(seriesId) ==
    [base |-> "https://www.nicovideo.jp/series/", rest |-> Str(seriesId), page |-> 0]

PageUrl(canonicalUrl, pageNo) ==
    [base |-> Str(canonicalUrl), rest |-> "?page=", page |-> pageNo]

\* fetch() rejects a URL that is not absolute, and may reject any request;
\* otherwise it resolves with whatever status and body the host serves.
FetchOutcomes(url) ==
    IF url.base = "undefined"
    THEN {NetworkError}
    ELSE {NetworkError} \cup
         {[kind |-> "response", status |-> st, body |-> b] :
             st \in Statuses,
             b \in IF url.page = 0 THEN Served(site.first) ELSE Served(site.last)}

\* opentelemetry.propagation.extract(active, {traceparent})
Extract(traceparent) ==
    CASE traceparent = "00-aaaa-01" -> [traceId |-> "aaaa", remote |-> TRUE]
      [] traceparent = "00-bbbb-01" -> [traceId |-> "bbbb", remote |-> TRUE]
      [] OTHER                      -> [traceId |-> "", remote |-> FALSE]

----------------------------------------------------------------------------
(* Pure helpers of index.ts *)

extractCanonicalUrl(body) ==
    IF body.canonical = <<>> THEN Undefined ELSE body.canonical[1]

\* the selection's data attribute: none when the element is missing
extractInitialAPIData(body) == body.initialData

extractEntry(videoItem) ==
    LET video == videoItem.video
    IN [link |-> [base |-> "https://www.nicovideo.jp/watch/", id |-> video.id],
        title |-> video.title,
        image |-> video.thumbnail.url,
        date |-> video.registeredAt,
        description |-> video.shortDescription]

\* a mapper that forgets to reverse the page's oldest-first order
reverseForgotten(s) == s

reverse(s) == [i \in 1..Len(s) |-> s[Len(s) + 1 - i]]

\* a mapper that forgets to truncate
sliceForgotten(s, n) == s

slice(s, n) == SubSeq(s, 1, Min(n, Len(s)))

\* data.items.reverse().slice(0, 20).map(extractEntry)
Entries(items) ==
    LET newest == slice(reverse(items), FeedLimit)
    IN [i \in 1..Len(newest) |-> extractEntry(newest[i])]

\* the threshold off by one: 100 <= seriesCount
NeedsLastPageInclusive(seriesCount) == PageSize <= seriesCount

NeedsLastPage(seriesCount) == PageSize < seriesCount

\* the page number without the increment for a partial last page
PageNoFloor(seriesCount) == seriesCount \div PageSize

PageNo(seriesCount) ==
    LET pageNo == seriesCount \div PageSize
    IN IF seriesCount % PageSize # 0 THEN pageNo + 1 ELSE pageNo

\* the empty check dropped
NoEntriesNever(entries) == FALSE

NoEntries(entries) == Len(entries) = 0

\* feed.addItem({...})
FeedItem(entry) ==
    [title |-> entry.title,
     id |-> entry.link,
     link |-> entry.link,
     description |-> entry.description,
     content |-> entry.link,
     image |-> entry.image,
     date |-> NewDate(entry.date)]

\* new Feed({...}) followed by entries.forEach(addItem)
NewFeed(feedTitle, seriesId, entries) ==
    [options |-> [title |-> feedTitle, description |-> feedTitle, id |-> "",
                  link |-> SeriesUrl(seriesId), copyright |-> ""],
     items |-> [i \in 1..Len(entries) |-> FeedItem(entries[i])]]

RssItem(item) ==
    [title |-> item.title,
     link |-> item.link,
     guid |-> item.id,
     pubDate |-> IF item.date.valid THEN [text |-> "UTC", epoch |-> item.date.epoch]
                 ELSE [text |-> "Invalid Date", epoch |-> 0],
     description |-> item.description,
     contentEncoded |-> item.content,
     enclosure |-> item.image]

\* feed.rss2()
Rss2(feed) ==
    [channel |-> [title |-> feed.options.title, link |-> feed.options.link,
                  description |-> feed.options.description],
     item |-> [i \in 1..Len(feed.items) |-> RssItem(feed.items[i])]]

TextBody(text) == [text |-> text, rss |-> <<>>]
XmlBody(feed) == [text |-> "", rss |-> <<Rss2(feed)>>]

NoEntriesBody == TextBody("No entries found")
GenericBody == TextBody("something went wrong. please check logs")

----------------------------------------------------------------------------
(* Effects, applied to the record s of one invocation *)

Ev(s, kind, name) == [s EXCEPT !.events = Append(@, [kind |-> kind, name |-> name])]

Stage(s, name) == Ev(s, "stage", name)

startSpan(s, spanName, ctx) ==
    Ev([s EXCEPT !.spans = Append(@, [name |-> spanName, context |-> ctx])],
       "startSpan", spanName)

endSpan(s, spanName) == Ev(s, "endSpan", spanName)

Meta(severity, logType) == [severity |-> severity, logType |-> logType]
Msg(text, args) == [text |-> text, args |-> args]

writeLog(s, metadata, data) ==
    IF isDevelopment
    THEN Ev([s EXCEPT !.console = Append(@, data)], "console.log", data.text)
    ELSE Ev([s EXCEPT !.log = Append(@, [metadata |-> metadata, data |-> data])],
            "log.write", metadata.severity)

\* res?.status(code)?.send(body)
Send(s, hasRes, status, body) ==
    LET t == [s EXCEPT !.pc = "done"]
    IN IF hasRes
       THEN Stage(Ev([t EXCEPT !.sent = Append(@, [status |-> status, body |-> body])],
                     "send", ToString(status)),
                  "Responded")
       ELSE t

IssueFetch(s, url, pc) ==
    Ev([s EXCEPT !.fetches = Append(@, url), !.pc = pc], "fetch", pc)

\* a throw inside check: the promise check returned is rejected with err
Throw(s, err) == [Ev(s, "throw", err) EXCEPT !.pc = "thrown", !.err = err]

\* check(req, res) called without await: the rejection is never caught
CatchUnawaited(s, hasRes) == [s EXCEPT !.pc = "done"]

\* the catch block of scrape
Catch(s, hasRes) ==
    Send(writeLog(s, Meta("ERROR", ""), Msg("error", <<s.err>>)),
         hasRes, 500, GenericBody)

\* check, lines 155-207: from feedTitle to the response
BuildAndRespond(s, hasRes, ctx) ==
    LET data == s.data[1]
        feedTitle == data.detail.title
        s1 == writeLog(s, Meta("INFO", "feedCount"),
                       Msg("Count", <<ToString(s.seriesCount), feedTitle>>))
        entries == Entries(data.items)
        s2 == Stage(s1, "Mapped")
    IN IF NoEntries(entries)
       THEN Send(writeLog(s2, Meta("CRITICAL", ""),
                          Msg("No entries found", <<Str(s.canonicalUrl), feedTitle>>)),
                 hasRes, 404, NoEntriesBody)
       ELSE LET s3 == startSpan(s2, "createFeed", ctx)
                feed == NewFeed(feedTitle, s.seriesId, entries)
                s4 == Stage(endSpan(Ev([s3 EXCEPT !.feeds = Append(@, feed)],
                                       "new Feed", ""),
                                    "createFeed"),
                            "FeedBuilt")
                s5 == writeLog(s4, Meta("INFO", ""),
                               Msg("Create feed successfully", <<Str(s.canonicalUrl)>>))
                s6 == IF isDevelopment
                      THEN Ev([s5 EXCEPT !.console = Append(@, Msg("rss2", <<>>))],
                              "console.log", "rss2")
                      ELSE s5
            IN Send(s6, hasRes, 200, XmlBody(feed))

\* check, lines 108-117: resolve the series id and issue the first fetch
CheckStart(s, c, ctx) ==
    LET seriesId == Nullish(c.req.query.seriesId, env)
        s0 == Stage(s, "Start")
    IN IF Falsy(seriesId)
       THEN Throw(s0, "No series id specified")
       ELSE IssueFetch(startSpan([s0 EXCEPT !.seriesId = seriesId], "fetch", ctx),
                       SeriesUrl(seriesId), "fetch")

\* `data` not rebound after the second parse
ReparsedStale(first, second) == first

\* the binding of `data` after the second parse (line 150)
Reparsed(first, second) == second

\* check, lines 119-153: the first fetch settled with `outcome`
AfterFetch(s, hasRes, outcome, ctx) ==
    LET g == [s EXCEPT !.got = Append(@, outcome)]
    IN IF outcome.kind = "error"
       THEN Throw(g, "FetchError")
       ELSE
         LET s1 == startSpan(Stage(endSpan(g, "fetch"), "Fetched1"), "parse", ctx)
             initialData == extractInitialAPIData(outcome.body)
         IN IF initialData = <<>>
            THEN Throw(s1, "TypeError")
            ELSE
              LET data == initialData[1].nvapi[1].body.data
                  canonicalUrl == extractCanonicalUrl(outcome.body)
                  seriesCount == data.totalCount
                  s2 == Stage(endSpan([s1 EXCEPT !.data = <<data>>,
                                                 !.canonicalUrl = canonicalUrl,
                                                 !.seriesCount = seriesCount],
                                      "parse"),
                              "Parsed1")
              IN IF NeedsLastPage(seriesCount)
                 THEN IssueFetch(startSpan(s2, "reFetch", ctx),
                                 PageUrl(canonicalUrl, PageNo(seriesCount)), "reFetch")
                 ELSE BuildAndRespond(s2, hasRes, ctx)

\* check, lines 139-153 and on: the second fetch settled with `outcome`
AfterReFetch(s, hasRes, outcome, ctx) ==
    LET g == [s EXCEPT !.got = Append(@, outcome)]
    IN IF outcome.kind = "error"
       THEN Throw(g, "FetchError")
       ELSE
         LET s1 == startSpan(Stage(endSpan(g, "reFetch"), "Fetched2"), "reParse", ctx)
             initialData == extractInitialAPIData(outcome.body)
         IN IF initialData = <<>>
            THEN Throw(s1, "TypeError")
            ELSE
              LET data == Reparsed(s.data[1], initialData[1].nvapi[1].body.data)
                  s2 == Stage(endSpan([s1 EXCEPT !.data = <<data>>], "reParse"),
                              "Parsed2")
              IN BuildAndRespond(s2, hasRes, ctx)

----------------------------------------------------------------------------
(* The state machine *)

NewRun ==
    [pc |-> "idle", seriesId |-> Undefined, canonicalUrl |-> Undefined,
     seriesCount |-> 0, data |-> <<>>, err |-> "",
     fetches |-> <<>>, got |-> <<>>, spans |-> <<>>, events |-> <<>>,
     log |-> <<>>, console |-> <<>>, feeds |-> <<>>, sent |-> <<>>]

\* The requests the platform hands to scrape: req and res are both objects
Calls ==
    [req : [query : [seriesId : QuerySeriesIds],
            headers : [traceparent : {Undefined, "00-aaaa-01"}]],
     res : {TRUE}]

\* scrape(null, null): req?.query?.seriesId and req?.headers?.traceparent are
\* undefined, and res?.status(..) does nothing
NullCall ==
    [req |-> [query |-> [seriesId |-> Undefined],
              headers |-> [traceparent |-> Undefined]],
     res |-> FALSE]

\* The module's own invocation is number 0, the requests are numbered from 1
Self == 0

\* In development the module ends its initialisation by calling
\* scrape(null, null): when the module has loaded, that invocation has
\* extracted the empty context and has run to its first await or to its throw
LoadedCalls(isDev, requests) ==
    IF isDev
      THEN {(Self :> NullCall) @@ c : c \in [requests -> Calls]}
      ELSE [requests -> Calls]

LoadedRuns(isDev, requests) ==
    IF isDev
      THEN (Self :> CheckStart(NewRun, NullCall, Extract(NullCall.req.headers.traceparent)))
           @@ [r \in requests |-> NewRun]
      ELSE [r \in requests |-> NewRun]

\* The pages served while the module's own invocation is in flight beside a
\* request
DevelopmentSite ==
    [first |-> Pages(TRUE, {1}, {3, PageSize + 1}, {0, 3}),
     last |-> Pages(TRUE, {2}, {MaxTotalCount}, {0, 3})]

DevelopmentSitePipeline ==
    [first |-> Pages(TRUE, {1}, {3, PageSize + 1}, {3}),
     last |-> Pages(FALSE, {2}, {MaxTotalCount}, {0, 3})]

\* The module has loaded and one request is about to arrive, the upstream
\* serving any page
Init ==
    /\ env \in EnvSeriesIds
    /\ isDevelopment \in BOOLEAN
    /\ site = IF isDevelopment
                THEN DevelopmentSite
                ELSE [first |-> Pages(TRUE, 1..2, TotalCounts, ItemCounts),
                      last |-> Pages(TRUE, 1..2, LastPageTotalCounts, ItemCounts)]
    /\ call \in LoadedCalls(isDevelopment, {1})
    /\ rootContext = Extract(Undefined)
    /\ run = LoadedRuns(isDevelopment, {1})

\* scrape(req, res) is called and runs to its first await
Invoke(r) ==
    /\ run[r].pc = "idle"
    /\ rootContext' = Extract(call[r].req.headers.traceparent)
    /\ run' = [run EXCEPT ![r] = CheckStart(@, call[r], rootContext')]
    /\ UNCHANGED <<env, isDevelopment, site, call>>

FetchSettles(r) ==
    /\ run[r].pc = "fetch"
    /\ \E outcome \in FetchOutcomes(run[r].fetches[1]) :
          run' = [run EXCEPT ![r] = AfterFetch(@, call[r].res, outcome, rootContext)]
    /\ UNCHANGED <<env, isDevelopment, site, call, rootContext>>

ReFetchSettles(r) ==
    /\ run[r].pc = "reFetch"
    /\ \E outcome \in FetchOutcomes(run[r].fetches[2]) :
          run' = [run EXCEPT ![r] = AfterReFetch(@, call[r].res, outcome, rootContext)]
    /\ UNCHANGED <<env, isDevelopment, site, call, rootContext>>

\* `await check(req, res)` resumes with the rejection: the catch block runs
CatchRuns(r) ==
    /\ run[r].pc = "thrown"
    /\ run' = [run EXCEPT ![r] = Catch(@, call[r].res)]
    /\ UNCHANGED <<env, isDevelopment, site, call, rootContext>>

Invocation == \E r \in DOMAIN run : Invoke(r)
FirstFetch == \E r \in DOMAIN run : FetchSettles(r)
SecondFetch == \E r \in DOMAIN run : ReFetchSettles(r)
Rejection == \E r \in DOMAIN run : CatchRuns(r)

Next == Invocation \/ FirstFetch \/ SecondFetch \/ Rejection

Spec == Init /\ [][Next]_vars

\* One invocation whose every issued fetch eventually settles (with a response
\* or an error) and whose pending microtasks are run; the upstream serves
\* short pages
InitPipeline ==
    /\ env \in EnvSeriesIds
    /\ isDevelopment \in BOOLEAN
    /\ site = IF isDevelopment
                THEN DevelopmentSitePipeline
                ELSE [first |-> Pages(TRUE, {1}, {PageSize, PageSize + 1}, {0, 3}),
                      last |-> Pages(TRUE, {2}, {MaxTotalCount}, {0, 3})]
    /\ call \in LoadedCalls(isDevelopment, {1})
    /\ rootContext = Extract(Undefined)
    /\ run = LoadedRuns(isDevelopment, {1})

FairSpec ==
    /\ InitPipeline /\ [][Next]_vars
    /\ WF_vars(FirstFetch) /\ WF_vars(SecondFetch) /\ WF_vars(Rejection)

\* Two invocations in one process, interleaving at their awaits
InitConc ==
    /\ env = "222"
    /\ isDevelopment = FALSE
    /\ site = [first |-> Pages(FALSE, {1}, {3, PageSize + 1}, {0, 3}),
               last |-> Pages(FALSE, {2}, {PageSize + 1}, {3})]
    /\ call \in [{1, 2} ->
                  [req : [query : [seriesId : {Undefined, "111"}],
                          headers : [traceparent : {Undefined} \cup Traceparents]],
                   res : {TRUE}]]
    /\ rootContext = Extract(Undefined)
    /\ run = [r \in {1, 2} |-> NewRun]

ConcSpec == InitConc /\ [][Next]_vars

----------------------------------------------------------------------------
(* What the properties below read from a run *)

Requests == {1, 2}

Active(r) == r \in DOMAIN run

\* the outcome carried a payload the parser accepts
HasPayload(outcome) == outcome.kind = "response" /\ outcome.body.initialData # <<>>

PayloadOf(outcome) == outcome.body.initialData[1].nvapi[1].body.data

HrefOf(outcome) ==
    IF outcome.body.canonical = <<>> THEN "undefined" ELSE outcome.body.canonical[1]

FirstParsed(s) == Len(s.got) >= 1 /\ HasPayload(s.got[1])

\* the request ran to the mapping step: every page it fetched was parsed, and
\* the page whose payload is used is the last one fetched
Mapping(s) ==
    /\ s.pc = "done"
    /\ Len(s.got) = Len(s.fetches)
    /\ Len(s.got) >= 1
    /\ \A i \in 1..Len(s.got) : HasPayload(s.got[i])

UsedItems(s) == PayloadOf(s.got[Len(s.got)]).items

Answered(s, status) == Len(s.sent) = 1 /\ s.sent[1].status = status

\* the items of the feed document sent with status 200 (none otherwise)
Emitted(s) == IF Answered(s, 200) THEN s.sent[1].body.rss[1].item ELSE <<>>

\* the feed item a source item must become
ItemFor(v) ==
    [title |-> v.video.title,
     link |-> [base |-> "https://www.nicovideo.jp/watch/", id |-> v.video.id],
     guid |-> [base |-> "https://www.nicovideo.jp/watch/", id |-> v.video.id],
     pubDate |-> IF NewDate(v.video.registeredAt).valid
                 THEN [text |-> "UTC", epoch |-> NewDate(v.video.registeredAt).epoch]
                 ELSE [text |-> "Invalid Date", epoch |-> 0],
     description |-> v.video.shortDescription,
     contentEncoded |-> [base |-> "https://www.nicovideo.jp/watch/", id |-> v.video.id],
     enclosure |-> v.video.thumbnail.url]

\* the last min(20, L) items of a list, newest first
NewestFirst(items) ==
    LET L == Len(items)
    IN [i \in 1..(IF L < 20 THEN L ELSE 20) |-> ItemFor(items[L - i + 1])]

CeilDiv(n, d) == CHOOSE k \in 0..n : k * d >= n /\ (k - 1) * d < n

HasEvent(s, kind, name) ==
    \E i \in 1..Len(s.events) : s.events[i] = [kind |-> kind, name |-> name]

Precedes(s, k1, n1, k2, n2) ==
    \E i, j \in 1..Len(s.events) :
        /\ i < j
        /\ s.events[i] = [kind |-> k1, name |-> n1]
        /\ s.events[j] = [kind |-> k2, name |-> n2]

Supplies(x) == x # Undefined /\ x # ""

Generic500(s) ==
    s.sent = <<[status |-> 500,
                body |-> [text |-> "something went wrong. please check logs",
                          rss |-> <<>>]]>>

NotFound404(s) ==
    s.sent = <<[status |-> 404, body |-> [text |-> "No entries found", rss |-> <<>>]]>>

----------------------------------------------------------------------------
(* C1 *)

\* C1: a request issues a second fetch exactly when the first page's payload
\* reports totalCount > 100; it never issues more than two fetches, never
\* fetches after a fetch failed, and never fetches one URL twice.
C1_SecondFetchIffOver100 ==
    \A r \in DOMAIN run :
        LET s == run[r]
        IN /\ Len(s.fetches) <= 2
           /\ Len(s.fetches) = 2 <=>
                 (FirstParsed(s) /\ PayloadOf(s.got[1]).totalCount > 100)
           /\ \A i \in 1..Len(s.got) :
                 s.got[i].kind = "error" =>
                    Len(s.fetches) = i /\ s.pc \in {"thrown", "done"}
           /\ \A i, j \in 1..Len(s.fetches) : i # j => s.fetches[i] # s.fetches[j]

C1_Witness ==
    \E r \in DOMAIN run :
        /\ run[r].pc = "done"
        /\ Len(run[r].fetches) = 2
        /\ Len(run[r].got) = 2
        /\ PayloadOf(run[r].got[1]).totalCount = 101

(* C2 *)

\* C2: the second fetch targets <canonicalUrl>?page=ceil(totalCount/100);
\* totalCount 250 targets page 3 and totalCount 200 targets page 2.
C2_LastPageIsCeil ==
    \A r \in DOMAIN run :
        LET s == run[r]
        IN Len(s.fetches) = 2 =>
              LET tc == PayloadOf(s.got[1]).totalCount
                  url == s.fetches[2]
              IN /\ tc > 100
                 /\ url.page = CeilDiv(tc, 100)
                 /\ url.base = HrefOf(s.got[1])
                 /\ url.rest = "?page="
                 /\ tc = 250 => url.page = 3
                 /\ tc = 200 => url.page = 2

C2_Witness ==
    \E r \in DOMAIN run :
        /\ Len(run[r].fetches) = 2
        /\ PayloadOf(run[r].got[1]).totalCount = 250
        /\ run[r].fetches[2].page = 3
        /\ run[r].fetches[2].base = "https://www.nicovideo.jp/series/111"

(* C3 *)

\* C3: when the item list finally used has length L >= 1, the feed holds
\* exactly min(20, L) items: the last min(20, L) source items in reverse
\* order, the i-th feed item built from the source item at L - i + 1.
C3_NewestTwentyReversed ==
    \A r \in DOMAIN run :
        LET s == run[r]
        IN (Mapping(s) /\ Len(UsedItems(s)) >= 1) =>
              LET items == UsedItems(s)
                  L == Len(items)
                  feed == s.feeds[1]
              IN /\ Len(s.feeds) = 1
                 /\ Len(feed.items) = (IF L < 20 THEN L ELSE 20)
                 /\ \A i \in 1..Len(feed.items) :
                       LET v == items[L - i + 1].video
                           it == feed.items[i]
                       IN /\ it.link = [base |-> "https://www.nicovideo.jp/watch/",
                                        id |-> v.id]
                          /\ it.title = v.title
                          /\ it.image = v.thumbnail.url
                          /\ it.date = NewDate(v.registeredAt)
                          /\ it.description = v.shortDescription
                 /\ call[r].res => (Answered(s, 200) /\ Emitted(s) = NewestFirst(items))

C3_Witness ==
    \E r \in DOMAIN run :
        /\ Mapping(run[r])
        /\ Len(UsedItems(run[r])) = 21
        /\ Answered(run[r], 200)
        /\ Len(Emitted(run[r])) = 20
        /\ Emitted(run[r])[1].guid.id = UsedItems(run[r])[21].video.id
        /\ Emitted(run[r])[20].guid.id = UsedItems(run[r])[2].video.id

(* C4 *)

\* C4: after a refetch, the title and the items of the feed sent with status
\* 200 are those of the second page's payload, whatever the first page's
\* items and title were.
C4_FeedFromSecondPageOnly ==
    \A r \in DOMAIN run :
        LET s == run[r]
        IN (Len(s.got) = 2 /\ Answered(s, 200)) =>
              /\ s.sent[1].body.rss[1].channel.title = PayloadOf(s.got[2]).detail.title
              /\ s.sent[1].body.rss[1].item = NewestFirst(PayloadOf(s.got[2]).items)

C4_Witness ==
    \E r \in DOMAIN run :
        LET s == run[r]
        IN /\ Len(s.got) = 2
           /\ Answered(s, 200)
           /\ PayloadOf(s.got[1]).detail.title # PayloadOf(s.got[2]).detail.title
           /\ PayloadOf(s.got[1]).items # PayloadOf(s.got[2]).items
           /\ Len(PayloadOf(s.got[1]).items) >= 1

(* C5 *)

\* C5 as stated: when the first page reports totalCount <= 100, the number
\* of emitted entries is min(20, totalCount).
C5_CountIsMinOfTotalCount ==
    \A r \in DOMAIN run :
        LET s == run[r]
        IN (s.pc = "done" /\ call[r].res /\ FirstParsed(s)
              /\ PayloadOf(s.got[1]).totalCount <= 100) =>
              LET tc == PayloadOf(s.got[1]).totalCount
              IN Len(Emitted(s)) = (IF tc < 20 THEN tc ELSE 20)

\* C5 amended: when the first page reports totalCount <= 100 there is no
\* second fetch and the emitted entries are the first page's items,
\* newest-first, min(20, L) of them for a first-page item list of length L.
C5_FirstPageOnly ==
    \A r \in DOMAIN run :
        LET s == run[r]
        IN (s.pc = "done" /\ call[r].res /\ FirstParsed(s)
              /\ PayloadOf(s.got[1]).totalCount <= 100) =>
              LET items == PayloadOf(s.got[1]).items
              IN /\ Len(s.fetches) = 1
                 /\ Emitted(s) = NewestFirst(items)
                 /\ Len(Emitted(s)) = (IF Len(items) < 20 THEN Len(items) ELSE 20)

C5_Witness ==
    \E r \in DOMAIN run :
        LET s == run[r]
        IN /\ s.pc = "done"
           /\ FirstParsed(s)
           /\ PayloadOf(s.got[1]).totalCount = 100
           /\ Len(PayloadOf(s.got[1]).items) = 21
           /\ Len(Emitted(s)) = 20

(* C6 *)

\* C6 as stated: when the item list finally used is empty the request ends
\* with 404 "No entries found", no feed object is constructed, no 200 is
\* sent, and a critical-severity log entry is written before the response.
C6_EmptyIs404WithCriticalEntry ==
    \A r \in DOMAIN run :
        LET s == run[r]
        IN (Mapping(s) /\ Len(UsedItems(s)) = 0 /\ call[r].res) =>
              /\ NotFound404(s)
              /\ s.feeds = <<>>
              /\ ~HasEvent(s, "new Feed", "")
              /\ ~HasEvent(s, "send", "200")
              /\ Precedes(s, "log.write", "CRITICAL", "send", "404")

\* C6 amended: the same, the critical-severity entry being written to the
\* log when NODE_ENV is "production"; otherwise the message is printed to
\* the console, without a severity, before the response.
C6_EmptyIs404 ==
    \A r \in DOMAIN run :
        LET s == run[r]
        IN (Mapping(s) /\ Len(UsedItems(s)) = 0 /\ call[r].res) =>
              /\ NotFound404(s)
              /\ s.feeds = <<>>
              /\ ~HasEvent(s, "new Feed", "")
              /\ ~HasEvent(s, "send", "200")
              /\ ~isDevelopment =>
                    /\ Precedes(s, "log.write", "CRITICAL", "send", "404")
                    /\ \E i \in 1..Len(s.log) :
                          /\ s.log[i].metadata.severity = "CRITICAL"
                          /\ s.log[i].data.text = "No entries found"
              /\ isDevelopment =>
                    /\ Precedes(s, "console.log", "No entries found", "send", "404")
                    /\ s.log = <<>>

C6_Witness ==
    \E r \in DOMAIN run :
        /\ Mapping(run[r])
        /\ Len(UsedItems(run[r])) = 0
        /\ ~isDevelopment
        /\ NotFound404(run[r])
        /\ Len(run[r].got) = 2

(* C7 *)

\* C7: a request ends in the MissingSeriesId failure (500 with the generic
\* message, before any fetch) exactly when neither the seriesId query
\* parameter nor SERIES_ID supplies an identifier; when one does, the first
\* fetch is issued for it, the query parameter taking precedence.
C7_MissingSeriesIdIffNoneSupplied ==
    \A r \in DOMAIN run :
        LET s == run[r]
            q == call[r].req.query.seriesId
            none == ~Supplies(q) /\ ~Supplies(env)
            missing == /\ s.pc = "done"
                       /\ s.fetches = <<>>
                       /\ HasEvent(s, "throw", "No series id specified")
                       /\ call[r].res => Generic500(s)
        IN s.pc # "idle" =>
              /\ s.pc = "done" => (missing <=> none)
              /\ none => s.fetches = <<>> /\ s.pc \in {"thrown", "done"}
              /\ ~none =>
                    /\ Len(s.fetches) >= 1
                    /\ s.fetches[1] = [base |-> "https://www.nicovideo.jp/series/",
                                       rest |-> IF Supplies(q) THEN q ELSE env,
                                       page |-> 0]

(* C8 *)

StageRank(name) ==
    CASE name = "Start" -> 1
      [] name = "Fetched1" -> 2
      [] name = "Parsed1" -> 3
      [] name = "Fetched2" -> 4
      [] name = "Parsed2" -> 5
      [] name = "Mapped" -> 6
      [] name = "FeedBuilt" -> 7
      [] name = "Responded" -> 8

SpanRank(name) ==
    CASE name = "fetch" -> 1
      [] name = "parse" -> 2
      [] name = "reFetch" -> 3
      [] name = "reParse" -> 4
      [] name = "createFeed" -> 5

StageNames(s) ==
    LET st == SelectSeq(s.events, LAMBDA e : e.kind = "stage")
    IN [i \in 1..Len(st) |-> st[i].name]

Has(seq, x) == \E i \in 1..Len(seq) : seq[i] = x

\* the stages passed are in the pipeline's order and none is skipped, except
\* that Fetched2/Parsed2 are optional and a response may follow any stage
StagesInOrder(s) ==
    LET st == StageNames(s)
    IN /\ \A i, j \in 1..Len(st) : i < j => StageRank(st[i]) < StageRank(st[j])
       /\ Len(st) >= 1 => st[1] = "Start"
       /\ Has(st, "Parsed1") => Has(st, "Fetched1")
       /\ Has(st, "Fetched2") => Has(st, "Parsed1")
       /\ Has(st, "Parsed2") => Has(st, "Fetched2")
       /\ Has(st, "Mapped") => Has(st, "Parsed1") /\ (Has(st, "Fetched2") => Has(st, "Parsed2"))
       /\ Has(st, "FeedBuilt") => Has(st, "Mapped")

SpansInOrder(s) ==
    \A i, j \in 1..Len(s.spans) :
        i < j => SpanRank(s.spans[i].name) < SpanRank(s.spans[j].name)

Thrown(s) == \E i \in 1..Len(s.events) : s.events[i].kind = "throw"

C8_Safe ==
    \A r \in DOMAIN run :
        LET s == run[r]
        IN call[r].res =>
              /\ Len(s.sent) <= 1
              /\ StagesInOrder(s)
              /\ SpansInOrder(s)
              /\ s.pc \in {"idle", "fetch", "reFetch", "thrown"} => s.sent = <<>>
              /\ s.pc = "done" => Len(s.sent) = 1
              /\ Len(s.sent) = 1 =>
                    /\ \/ Answered(s, 200) /\ Len(s.sent[1].body.rss) = 1
                                           /\ s.sent[1].body.text = ""
                       \/ NotFound404(s)
                       \/ Generic500(s)
                    /\ s.events[Len(s.events)] = [kind |-> "stage", name |-> "Responded"]
                    /\ Len(s.got) = Len(s.fetches)
                    /\ Answered(s, 200) =>
                          StageNames(s) \in
                             {<<"Start", "Fetched1", "Parsed1", "Mapped", "FeedBuilt",
                                "Responded">>,
                              <<"Start", "Fetched1", "Parsed1", "Fetched2", "Parsed2",
                                "Mapped", "FeedBuilt", "Responded">>}
                    /\ Answered(s, 404) =>
                          /\ Has(StageNames(s), "Mapped")
                          /\ ~Has(StageNames(s), "FeedBuilt")
              /\ Thrown(s) =>
                    /\ s.pc \in {"thrown", "done"}
                    /\ s.pc = "done" => Generic500(s)
                    /\ ~Has(StageNames(s), "Mapped")
                    /\ Len(s.got) = Len(s.fetches)
              /\ s.pc = "thrown" => Thrown(s)
              /\ (s.pc = "done" /\ ~Has(StageNames(s), "Mapped")) => Generic500(s)

\* C8: with a response object and every fetch settling, scrape passes the
\* stages in order and sends exactly one response (200 with the feed, 404
\* "No entries found" or 500 with the generic message); a failure before
\* Mapped gives the 500; nothing is sent while a fetch is outstanding.
C8_OneResponseInOrder ==
    /\ []C8_Safe
    /\ \A r \in Requests :
          (Active(r) /\ run[r].pc # "idle" /\ call[r].res)
             ~> (Active(r) /\ run[r].pc = "done" /\ Len(run[r].sent) = 1)

C8_Witness ==
    \E r \in DOMAIN run :
        /\ Answered(run[r], 200)
        /\ Len(run[r].got) = 2
        /\ StageNames(run[r]) =
              <<"Start", "Fetched1", "Parsed1", "Fetched2", "Parsed2", "Mapped",
                "FeedBuilt", "Responded">>

(* C9 *)

\* C9: a fetch that ends in a network error or a non-success HTTP status is
\* a fetch failure: the request ends with the generic 500, so the failed
\* response's body is never used to build a 200 or a 404.
C9_FailedFetchIs500 ==
    \A r \in DOMAIN run :
        LET s == run[r]
        IN \A i \in 1..Len(s.got) :
              (s.got[i].kind = "error" \/ s.got[i].status \notin 200..299) =>
                 /\ s.pc \in {"thrown", "done"}
                 /\ (s.pc = "done" /\ call[r].res) => Generic500(s)

(* C10 *)

\* C10: every span of a request is started under the trace context
\* extracted from that request's own traceparent header, also when two
\* invocations interleave at their awaits.
C10_SpansUnderOwnContext ==
    \A r \in DOMAIN run :
        \A i \in 1..Len(run[r].spans) :
            run[r].spans[i].context = Extract(call[r].req.headers.traceparent)

====
